---------------------------- MODULE Spec2Model ----------------------------
(***************************************************************************)
(* Model of clock.py: a local alarm clock made of a one-request-at-a-time  *)
(* HTTP handler (/save, /stop, /test) and a background alarm_checker       *)
(* thread, sharing RINGING, STOPPED_THIS_MINUTE, LOCK, the pygame music    *)
(* channel and the settings file.                                          *)
(*                                                                         *)
(* A Python str is a sequence of characters; a character is a one-letter   *)
(* TLA+ string, except the two that need a name: BSLASH and DQUOTE.        *)
(* None is the empty sequence: every str that shares a variable with None  *)
(* (a display string, a minute key, an absolute path) is non-empty.        *)
(***************************************************************************)
EXTENDS Integers, Sequences, FiniteSets, TLC

None == << >>

BSLASH == "BSLASH"
DQUOTE == "DQUOTE"
EACUTE == "EACUTE"

Digit == <<"0", "1", "2", "3", "4", "5", "6", "7", "8", "9">>

IsDigit(c) == \E i \in 1..10 : Digit[i] = c

DigitVal(c) == CHOOSE i \in 0..9 : Digit[i + 1] = c

(***************************************************************************)
(* str.strip(), str.upper(), str.startswith()                              *)
(***************************************************************************)
RECURSIVE LStrip(_)
LStrip(s) == IF s # << >> /\ Head(s) = " " THEN LStrip(Tail(s)) ELSE s

RECURSIVE RStrip(_)
RStrip(s) ==
    IF s # << >> /\ s[Len(s)] = " " THEN RStrip(SubSeq(s, 1, Len(s) - 1)) ELSE s

Strip(s) == RStrip(LStrip(s))

UpperChar(c) ==
    CASE c = "a" -> "A"
      [] c = "p" -> "P"
      [] c = "m" -> "M"
      [] c = "x" -> "X"
      [] OTHER -> c

Upper(s) == [i \in 1..Len(s) |-> UpperChar(s[i])]

StartsWith(s, prefix) ==
    /\ Len(prefix) <= Len(s)
    /\ SubSeq(s, 1, Len(prefix)) = prefix

(***************************************************************************)
(* int(str): surrounding blanks, an optional sign, then decimal digits in  *)
(* which single underscores may separate digits; anything else raises      *)
(* ValueError.  The result is [ok, val]; ok = FALSE stands for the raise.  *)
(***************************************************************************)
RECURSIVE DigitsValue(_, _)
DigitsValue(s, acc) ==
    IF s = << >> THEN acc
    ELSE IF Head(s) = "_" THEN DigitsValue(Tail(s), acc)
    ELSE DigitsValue(Tail(s), 10 * acc + DigitVal(Head(s)))

ValidDigits(s) ==
    /\ s # << >>
    /\ IsDigit(s[1])
    /\ IsDigit(s[Len(s)])
    /\ \A i \in 1..Len(s) : IsDigit(s[i]) \/ s[i] = "_"
    /\ \A i \in 1..(Len(s) - 1) : ~(s[i] = "_" /\ s[i + 1] = "_")

PyInt(str) ==
    LET t == Strip(str)
        signed == t # << >> /\ Head(t) \in {"-", "+"}
        body == IF signed THEN Tail(t) ELSE t
        mag == DigitsValue(body, 0)
    IN  IF ValidDigits(body)
        THEN [ok |-> TRUE, val |-> IF signed /\ Head(t) = "-" THEN 0 - mag ELSE mag]
        ELSE [ok |-> FALSE, val |-> 0]

(***************************************************************************)
(* f"{n:02d}": the decimal digits of n, zero-padded to width 2, the sign   *)
(* counting towards the width.                                             *)
(***************************************************************************)
RECURSIVE DecStr(_)
DecStr(n) ==
    IF n < 10 THEN <<Digit[n + 1]>>
    ELSE DecStr(n \div 10) \o <<Digit[(n % 10) + 1]>>

Format02d(n) ==
    IF n < 0
    THEN <<"-">> \o DecStr(0 - n)
    ELSE IF n < 10 THEN <<"0">> \o DecStr(n) ELSE DecStr(n)

Max(a, b) == IF a >= b THEN a ELSE b

Min(a, b) == IF a <= b THEN a ELSE b

(***************************************************************************)
(* normalize_time(hour_str, min_str, ampm_str) -> (HH, MM, AM/PM, time12)  *)
(***************************************************************************)
NormalizeHourDefault == 7

NormalizeMinuteDefault == 0

\* normalize_time with the hour clamped to [0, 12]
normalize_time_HourFromZero(hour_str, min_str, ampm_str) ==
    LET ph == PyInt(hour_str)
        pm == PyInt(min_str)
        h0 == IF ph.ok THEN ph.val ELSE NormalizeHourDefault
        m0 == IF pm.ok THEN pm.val ELSE NormalizeMinuteDefault
        h == Max(0, Min(12, h0))
        m == Max(0, Min(59, m0))
        ampm == IF Upper(Strip(ampm_str)) # <<"P", "M">> THEN <<"A", "M">> ELSE <<"P", "M">>
    IN  <<Format02d(h), Format02d(m), ampm,
          Format02d(h) \o <<":">> \o Format02d(m) \o <<" ">> \o ampm>>

normalize_time(hour_str, min_str, ampm_str) ==
    LET ph == PyInt(hour_str)
        pm == PyInt(min_str)
        h0 == IF ph.ok THEN ph.val ELSE NormalizeHourDefault
        m0 == IF pm.ok THEN pm.val ELSE NormalizeMinuteDefault
        h == Max(1, Min(12, h0))
        m == Max(0, Min(59, m0))
        ampm == IF Upper(Strip(ampm_str)) # <<"P", "M">> THEN <<"A", "M">> ELSE <<"P", "M">>
    IN  <<Format02d(h), Format02d(m), ampm,
          Format02d(h) \o <<":">> \o Format02d(m) \o <<" ">> \o ampm>>

(***************************************************************************)
(* Python values read from and written to the settings file.  A dict is    *)
(* its items in insertion order, each <<key, value>> with a str value;     *)
(* the only non-dict value the program can meet is a JSON array.           *)
(***************************************************************************)
Dict(items) == [type |-> "dict", items |-> items]

PyList == [type |-> "list", items |-> << >>]

EmptyDict == Dict(<< >>)

HasKey(d, k) == \E i \in 1..Len(d.items) : d.items[i][1] = k

\* dict.get(k, default); dict[k] where the key is present
Get(d, k, default) ==
    IF HasKey(d, k)
    THEN LET i == CHOOSE j \in 1..Len(d.items) :
                     /\ d.items[j][1] = k
                     /\ \A l \in (j + 1)..Len(d.items) : d.items[l][1] # k
         IN  d.items[i][2]
    ELSE default

(***************************************************************************)
(* json.dump / json.load on the settings file.  The text of a JSON object  *)
(* is kept as its members in order, each <<key, body>> where body is the   *)
(* characters written between the quotes of the value: json.dump escapes   *)
(* the quote, the backslash and (ensure_ascii) every non-ASCII character;  *)
(* json.load undoes the escapes and raises on a malformed one.             *)
(***************************************************************************)
\* EscapeChar with the backslash written as it is
EscapeChar_KeepsBackslash(c) ==
    CASE c = DQUOTE -> <<BSLASH, DQUOTE>>
      [] c = EACUTE -> <<BSLASH, "u", "0", "0", "e", "9">>
      [] OTHER -> <<c>>

EscapeChar(c) ==
    CASE c = DQUOTE -> <<BSLASH, DQUOTE>>
      [] c = BSLASH -> <<BSLASH, BSLASH>>
      [] c = EACUTE -> <<BSLASH, "u", "0", "0", "e", "9">>
      [] OTHER -> <<c>>

RECURSIVE Escape(_)
Escape(s) == IF s = << >> THEN << >> ELSE EscapeChar(Head(s)) \o Escape(Tail(s))

\* [ok, val]: ok = FALSE stands for json.JSONDecodeError
RECURSIVE Unescape(_)
Unescape(t) ==
    IF t = << >> THEN [ok |-> TRUE, val |-> << >>]
    ELSE IF Head(t) = DQUOTE THEN [ok |-> FALSE, val |-> << >>]
    ELSE IF Head(t) # BSLASH
         THEN LET r == Unescape(Tail(t))
              IN  [ok |-> r.ok, val |-> <<Head(t)>> \o r.val]
    ELSE IF Len(t) >= 2 /\ t[2] \in {BSLASH, DQUOTE}
         THEN LET r == Unescape(SubSeq(t, 3, Len(t)))
              IN  [ok |-> r.ok, val |-> <<t[2]>> \o r.val]
    ELSE IF Len(t) >= 6 /\ SubSeq(t, 2, 6) = <<"u", "0", "0", "e", "9">>
         THEN LET r == Unescape(SubSeq(t, 7, Len(t)))
              IN  [ok |-> r.ok, val |-> <<EACUTE>> \o r.val]
    ELSE [ok |-> FALSE, val |-> << >>]

\* The settings file: absent, or a text that is no JSON (which an empty,
\* just-truncated file is), a JSON array, or a JSON object.
FileMissing == [kind |-> "missing", members |-> << >>]

FileGarbage == [kind |-> "garbage", members |-> << >>]

FileArray == [kind |-> "array", members |-> << >>]

FileObject(members) == [kind |-> "object", members |-> members]

json_dump(obj) ==
    FileObject([i \in 1..Len(obj.items) |->
                  <<obj.items[i][1], Escape(obj.items[i][2])>>])

json_load(file) ==
    IF file.kind = "array" THEN [ok |-> TRUE, val |-> PyList]
    ELSE IF file.kind # "object" THEN [ok |-> FALSE, val |-> EmptyDict]
    ELSE IF \E i \in 1..Len(file.members) : ~Unescape(file.members[i][2]).ok
         THEN [ok |-> FALSE, val |-> EmptyDict]
    ELSE [ok |-> TRUE,
          val |-> Dict([i \in 1..Len(file.members) |->
                          <<file.members[i][1], Unescape(file.members[i][2]).val>>])]

\* save_alarm_obj(obj): the content of the file once it is closed
save_alarm_obj(obj) == json_dump(obj)

load_alarm(file) ==
    IF file.kind = "missing" THEN EmptyDict
    ELSE IF json_load(file).ok THEN json_load(file).val
    ELSE EmptyDict

(***************************************************************************)
(* os.path on POSIX paths: isabs, join, normpath/abspath, exists.          *)
(***************************************************************************)
IsAbs(p) == p # << >> /\ Head(p) = "/"

PathJoin(a, p) ==
    IF IsAbs(p) THEN p
    ELSE IF a = << >> \/ a[Len(a)] = "/" THEN a \o p
    ELSE a \o <<"/">> \o p

RECURSIVE SplitPath(_, _)
SplitPath(s, cur) ==
    IF s = << >> THEN <<cur>>
    ELSE IF Head(s) = "/" THEN <<cur>> \o SplitPath(Tail(s), << >>)
    ELSE SplitPath(Tail(s), Append(cur, Head(s)))

RECURSIVE JoinComps(_)
JoinComps(cs) ==
    IF cs = << >> THEN << >>
    ELSE IF Len(cs) = 1 THEN cs[1]
    ELSE cs[1] \o <<"/">> \o JoinComps(Tail(cs))

DotDot == <<".", ".">>

RECURSIVE NormComps(_, _, _)
NormComps(comps, new, rooted) ==
    IF comps = << >> THEN new
    ELSE LET c == Head(comps)
         IN  IF c = << >> \/ c = <<".">> THEN NormComps(Tail(comps), new, rooted)
             ELSE IF \/ c # DotDot
                     \/ (~rooted /\ new = << >>)
                     \/ (new # << >> /\ new[Len(new)] = DotDot)
                  THEN NormComps(Tail(comps), Append(new, c), rooted)
             ELSE IF new # << >>
                  THEN NormComps(Tail(comps), SubSeq(new, 1, Len(new) - 1), rooted)
             ELSE NormComps(Tail(comps), new, rooted)

NormPath(path) ==
    IF path = << >> THEN <<".">>
    ELSE LET rooted == IsAbs(path)
             slashes == IF rooted /\ StartsWith(path, <<"/", "/">>)
                           /\ ~StartsWith(path, <<"/", "/", "/">>)
                        THEN <<"/", "/">>
                        ELSE IF rooted THEN <<"/">> ELSE << >>
             out == slashes \o JoinComps(NormComps(SplitPath(path, << >>), << >>, rooted))
         IN  IF out = << >> THEN <<".">> ELSE out

\* os.path.abspath of a path that is already absolute (every candidate is)
AbsPath(p) == NormPath(p)

SCRIPT_DIR == <<"/", "s">>

MUSIC_DIR == PathJoin(SCRIPT_DIR, <<"m">>)

\* the directories that exist: the root, the script's and the music folder
Dirs == {<<"/">>, SCRIPT_DIR, MUSIC_DIR}

PathOf(names) == IF names = << >> THEN <<"/">> ELSE <<"/">> \o JoinComps(names)

\* stat() walks the path a component at a time: every component but the
\* last names a directory, ".." steps to the parent
RECURSIVE Walk(_, _, _)
Walk(comps, cur, files) ==
    IF comps = << >> THEN TRUE
    ELSE IF PathOf(cur) \notin Dirs THEN FALSE
    ELSE LET c == Head(comps)
         IN  IF c = << >> \/ c = <<".">> THEN Walk(Tail(comps), cur, files)
             ELSE IF c = DotDot
                  THEN Walk(Tail(comps),
                            IF cur = << >> THEN cur ELSE SubSeq(cur, 1, Len(cur) - 1),
                            files)
             ELSE /\ PathOf(Append(cur, c)) \in (Dirs \cup files)
                  /\ Walk(Tail(comps), Append(cur, c), files)

\* os.path.exists of an absolute path, `files` being the files that exist
Exists(p, files) == IsAbs(p) /\ Walk(Tail(SplitPath(p, << >>)), << >>, files)

(***************************************************************************)
(* resolve_tone_path(tone_path): the first existing candidate, or None     *)
(***************************************************************************)
\* Candidates with the script's folder tried before the music folder
Candidates_ScriptDirFirst(tone_path) ==
    LET c0 == IF IsAbs(tone_path) THEN <<tone_path>> ELSE << >>
        c1 == c0 \o <<PathJoin(SCRIPT_DIR, tone_path), PathJoin(MUSIC_DIR, tone_path)>>
    IN  IF StartsWith(tone_path, MUSIC_DIR) THEN <<tone_path>> \o c1 ELSE c1

Candidates(tone_path) ==
    LET c0 == IF IsAbs(tone_path) THEN <<tone_path>> ELSE << >>
        c1 == c0 \o <<PathJoin(MUSIC_DIR, tone_path), PathJoin(SCRIPT_DIR, tone_path)>>
    IN  IF StartsWith(tone_path, MUSIC_DIR) THEN <<tone_path>> \o c1 ELSE c1

resolve_tone_path(tone_path, files) ==
    IF tone_path = << >> THEN None
    ELSE LET cands == Candidates(tone_path)
             hits == {i \in 1..Len(cands) : Exists(cands[i], files)}
         IN  IF hits = {} THEN None
             ELSE AbsPath(cands[CHOOSE i \in hits : \A j \in hits : i <= j])

(***************************************************************************)
(* datetime.now() and strftime: the wall clock is the minute of the day.   *)
(***************************************************************************)
MinutesPerDay == 24 * 60

Hour12(t) == LET h == (t \div 60) % 12 IN IF h = 0 THEN 12 ELSE h

Meridiem(t) == IF t \div 60 < 12 THEN <<"A", "M">> ELSE <<"P", "M">>

\* (now.strftime("%I"), now.strftime("%M"), now.strftime("%p"))
current_h_m_ampm(t) == <<Format02d(Hour12(t)), Format02d(t % 60), Meridiem(t)>>

\* datetime.now().strftime("%I:%M %p")
Display(t) ==
    Format02d(Hour12(t)) \o <<":">> \o Format02d(t % 60) \o <<" ">> \o Meridiem(t)

(***************************************************************************)
(* Bounds and inputs of the model.                                         *)
(***************************************************************************)
\* the wall clock at start-up: 07:04 AM
StartClock == 7 * 60 + 4

\* how many times the displayed minute changes in a run
MaxAdvance == 2

\* a displayed minute later, or half a day later (the same "HH:MM", the
\* other meridiem)
ClockSteps == {1, 720}

\* the ringtone files: one audio file in the music folder, which may come
\* and go, and one file next to the script that pygame cannot decode
ToneA == PathJoin(MUSIC_DIR, <<"a">>)

ToneB == PathJoin(SCRIPT_DIR, <<"b">>)

StaticFiles == {ToneB}

Playable == {ToneA}

\* the query parameters of the /save requests that are sent
SaveHours == {<<"7">>}

SaveMinutes == {<<"4">>}

SaveAmpms == {<<"a", "m">>}

SaveTones == {<<"a">>, <<"b">>, <<"z">>}

SaveRequests ==
    [hour : SaveHours, minute : SaveMinutes, ampm : SaveAmpms, ringtone : SaveTones]

NoParams == [hour |-> << >>, minute |-> << >>, ampm |-> << >>, ringtone |-> << >>]

VARIABLES
    clock,                 \* datetime.now(), as the minute of the day
    advances,              \* how many times the clock has advanced
    files,                 \* the files that exist
    AUDIO_OK,              \* pygame.mixer.init() succeeded
    alarmFile,             \* the content of ALARM_FILE
    music,                 \* pygame.mixer.music: what is loaded, what plays
    RINGING,
    STOPPED_THIS_MINUTE,
    LOCK,                  \* "free", or the thread that holds it
    cpc,                   \* alarm_checker: where the thread is
    alarm, now, last_minute_seen, should_ring,
    blocked_this_minute, already_ringing, tone_hit,
    hpc,                   \* the request handler: where the thread is
    params,                \* /save: the query parameters
    tone,                  \* /save: tone_hit; /test: tone
    stopDone,              \* a stop_playback() has returned in this displayed minute
    fnPc, fnIn, fnOut      \* the pure functions, called on their own

envVars == <<clock, advances, files, AUDIO_OK>>

sharedVars == <<alarmFile, music, RINGING, STOPPED_THIS_MINUTE, LOCK>>

ckVars == <<cpc, alarm, now, last_minute_seen, should_ring,
            blocked_this_minute, already_ringing, tone_hit>>

hVars == <<hpc, params, tone>>

fnVars == <<fnPc, fnIn, fnOut>>

vars == <<envVars, sharedVars, ckVars, hVars, stopDone, fnVars>>

Silent == [loaded |-> None, playing |-> "no"]

\* the state of the program as main() starts the two threads
InitProgram ==
    /\ clock = StartClock
    /\ advances = 0
    /\ files = StaticFiles \cup {ToneA}
    /\ music = Silent
    /\ RINGING = FALSE
    /\ STOPPED_THIS_MINUTE = None
    /\ LOCK = "free"
    /\ cpc = "load"
    /\ alarm = EmptyDict
    /\ now = <<None, None, None>>
    /\ last_minute_seen = None
    /\ should_ring = FALSE
    /\ blocked_this_minute = FALSE
    /\ already_ringing = FALSE
    /\ tone_hit = None
    /\ hpc = "idle"
    /\ params = NoParams
    /\ tone = None
    /\ stopDone = FALSE

Init ==
    /\ InitProgram
    /\ AUDIO_OK \in BOOLEAN
    /\ alarmFile \in {FileMissing, FileArray}
    /\ fnPc = "off"
    /\ fnIn = << >>
    /\ fnOut = << >>

(***************************************************************************)
(* alarm_checker: one tick of the while loop, a step at a time             *)
(***************************************************************************)
now_h == now[1]

now_m == now[2]

now_ap == now[3]

now_comp == now_h \o <<":">> \o now_m \o <<" ">> \o now_ap

current_minute_key == now_h \o <<":">> \o now_m

Truthy(v) == v # << >>

\* Configured without the test of the ringtone
Configured_IgnoresRingtone(a) ==
    /\ Truthy(Get(a, "hour", None))
    /\ Truthy(Get(a, "minute", None))
    /\ Truthy(Get(a, "ampm", None))

Configured(a) ==
    /\ Truthy(Get(a, "hour", None))
    /\ Truthy(Get(a, "minute", None))
    /\ Truthy(Get(a, "ampm", None))
    /\ Truthy(Get(a, "ringtone", None))

\* where the tick goes once the stop flag is dealt with: the periodic log
\* line is due when more than 12 s have passed since the last one
AfterReset == {"log", "chk_acq"}

\* The locals of a tick are assigned again before they are next read: they
\* are cleared where the code no longer reads them.
ClearTick ==
    /\ alarm' = EmptyDict
    /\ now' = <<None, None, None>>
    /\ should_ring' = FALSE
    /\ blocked_this_minute' = FALSE
    /\ already_ringing' = FALSE

\* alarm = load_alarm(); a list has no .get, and the AttributeError is
\* caught by the loop's except; a record with a field missing or empty
\* ends the tick
CkLoad ==
    /\ cpc = "load"
    /\ LET a == load_alarm(alarmFile)
       IN  IF a.type # "dict" THEN cpc' = "backoff" /\ alarm' = EmptyDict
           ELSE IF Configured(a) THEN cpc' = "now" /\ alarm' = a
           ELSE cpc' = "sleep" /\ alarm' = EmptyDict
    /\ UNCHANGED <<envVars, sharedVars, now, last_minute_seen, should_ring,
                   blocked_this_minute, already_ringing, tone_hit,
                   hVars, stopDone, fnVars>>

CkNow ==
    /\ cpc = "now"
    /\ now' = current_h_m_ampm(clock)
    /\ IF last_minute_seen # now'[1] \o <<":">> \o now'[2]
       THEN cpc' = "reset_acq"
       ELSE cpc' \in AfterReset
    /\ UNCHANGED <<envVars, sharedVars, alarm, last_minute_seen, should_ring,
                   blocked_this_minute, already_ringing, tone_hit,
                   hVars, stopDone, fnVars>>

CkResetAcq ==
    /\ cpc = "reset_acq"
    /\ LOCK = "free"
    /\ LOCK' = "checker"
    /\ cpc' = "reset_write"
    /\ UNCHANGED <<envVars, alarmFile, music, RINGING, STOPPED_THIS_MINUTE,
                   alarm, now, last_minute_seen, should_ring,
                   blocked_this_minute, already_ringing, tone_hit,
                   hVars, stopDone, fnVars>>

\* the body of the with block, its exit, and last_minute_seen
CkResetWrite ==
    /\ cpc = "reset_write"
    /\ STOPPED_THIS_MINUTE' = None
    /\ LOCK' = "free"
    /\ last_minute_seen' = current_minute_key
    /\ cpc' \in AfterReset
    /\ UNCHANGED <<envVars, alarmFile, music, RINGING, alarm, now, should_ring,
                   blocked_this_minute, already_ringing, tone_hit,
                   hVars, stopDone, fnVars>>

\* print(f"... ringing={RINGING}")
CkLog ==
    /\ cpc = "log"
    /\ cpc' = "chk_acq"
    /\ UNCHANGED <<envVars, sharedVars, alarm, now, last_minute_seen, should_ring,
                   blocked_this_minute, already_ringing, tone_hit,
                   hVars, stopDone, fnVars>>

\* ShouldRing without the comparison of the meridiem
ShouldRing_IgnoresMeridiem(a, n) ==
    /\ Get(a, "hour", None) = n[1]
    /\ Get(a, "minute", None) = n[2]

ShouldRing(a, n) ==
    /\ Get(a, "hour", None) = n[1]
    /\ Get(a, "minute", None) = n[2]
    /\ Upper(Get(a, "ampm", None)) = Upper(n[3])

\* should_ring is computed and the with block entered
CkChkAcq ==
    /\ cpc = "chk_acq"
    /\ LOCK = "free"
    /\ should_ring' = ShouldRing(alarm, now)
    /\ LOCK' = "checker"
    /\ cpc' = "chk_read"
    /\ UNCHANGED <<envVars, alarmFile, music, RINGING, STOPPED_THIS_MINUTE,
                   alarm, now, last_minute_seen,
                   blocked_this_minute, already_ringing, tone_hit,
                   hVars, stopDone, fnVars>>

\* the body of the with block, and its exit
CkChkRead ==
    /\ cpc = "chk_read"
    /\ blocked_this_minute' = (STOPPED_THIS_MINUTE = now_comp)
    /\ already_ringing' = RINGING
    /\ LOCK' = "free"
    /\ cpc' = "decide"
    /\ UNCHANGED <<envVars, alarmFile, music, RINGING, STOPPED_THIS_MINUTE,
                   alarm, now, last_minute_seen, should_ring, tone_hit,
                   hVars, stopDone, fnVars>>

\* CkDecide without the test of already_ringing
CkDecide_IgnoresAlreadyRinging ==
    /\ cpc = "decide"
    /\ IF should_ring /\ ~blocked_this_minute
       THEN /\ tone_hit' = resolve_tone_path(Get(alarm, "ringtone", None), files)
            /\ cpc' = IF Truthy(tone_hit') THEN "pl_check" ELSE "sleep"
       ELSE /\ tone_hit' = None
            /\ cpc' = "sleep"
    /\ ClearTick
    /\ UNCHANGED <<envVars, sharedVars, last_minute_seen, hVars, stopDone, fnVars>>

\* CkDecide that gives the minute up when the ringtone does not resolve
CkDecide_GivesUpOnMissingTone ==
    /\ cpc = "decide"
    /\ IF should_ring /\ ~already_ringing /\ ~blocked_this_minute
       THEN /\ tone_hit' = resolve_tone_path(Get(alarm, "ringtone", None), files)
            /\ cpc' = IF Truthy(tone_hit') THEN "pl_check" ELSE "sleep"
            /\ STOPPED_THIS_MINUTE' = IF Truthy(tone_hit') THEN STOPPED_THIS_MINUTE
                                      ELSE now_comp
       ELSE /\ tone_hit' = None
            /\ cpc' = "sleep"
            /\ STOPPED_THIS_MINUTE' = STOPPED_THIS_MINUTE
    /\ ClearTick
    /\ UNCHANGED <<envVars, alarmFile, music, RINGING, LOCK, last_minute_seen,
                   hVars, stopDone, fnVars>>

\* CkDecide that ends the ring when the clock no longer matches the alarm
CkDecide_StopsWhenMinutePasses ==
    /\ cpc = "decide"
    /\ IF should_ring /\ ~already_ringing /\ ~blocked_this_minute
       THEN /\ tone_hit' = resolve_tone_path(Get(alarm, "ringtone", None), files)
            /\ cpc' = IF Truthy(tone_hit') THEN "pl_check" ELSE "sleep"
            /\ UNCHANGED <<music, RINGING>>
       ELSE /\ tone_hit' = None
            /\ cpc' = "sleep"
            /\ IF ~should_ring /\ already_ringing
               THEN music' = [music EXCEPT !.playing = "no"] /\ RINGING' = FALSE
               ELSE UNCHANGED <<music, RINGING>>
    /\ ClearTick
    /\ UNCHANGED <<envVars, alarmFile, STOPPED_THIS_MINUTE, LOCK, last_minute_seen,
                   hVars, stopDone, fnVars>>

\* the trigger decision: play_loop(tone_hit) is called, or the tick ends
\* (with "Ringtone path not found" printed when the path does not resolve)
CkDecide ==
    /\ cpc = "decide"
    /\ IF should_ring /\ ~already_ringing /\ ~blocked_this_minute
       THEN /\ tone_hit' = resolve_tone_path(Get(alarm, "ringtone", None), files)
            /\ cpc' = IF Truthy(tone_hit') THEN "pl_check" ELSE "sleep"
       ELSE /\ tone_hit' = None
            /\ cpc' = "sleep"
    /\ ClearTick
    /\ UNCHANGED <<envVars, sharedVars, last_minute_seen, hVars, stopDone, fnVars>>

(***************************************************************************)
(* play_loop(path), called by alarm_checker with path = tone_hit           *)
(***************************************************************************)
\* pygame.mixer.music.load raises unless the path is a file it can decode
Loadable(path) == path \in files /\ path \in Playable

\* PlCheck without the test of AUDIO_OK
PlCheck_NoAudioGuard ==
    /\ cpc = "pl_check"
    /\ cpc' = "pl_load"
    /\ UNCHANGED <<envVars, sharedVars, alarm, now, last_minute_seen, should_ring,
                   blocked_this_minute, already_ringing, tone_hit,
                   hVars, stopDone, fnVars>>

\* if not AUDIO_OK: print and return
PlCheck ==
    /\ cpc = "pl_check"
    /\ IF ~AUDIO_OK
       THEN cpc' = "sleep" /\ tone_hit' = None
       ELSE cpc' = "pl_load" /\ tone_hit' = tone_hit
    /\ UNCHANGED <<envVars, sharedVars, alarm, now, last_minute_seen, should_ring,
                   blocked_this_minute, already_ringing,
                   hVars, stopDone, fnVars>>

\* load() replaces what was loaded, stopping it; a failed load changes nothing
PlLoad ==
    /\ cpc = "pl_load"
    /\ IF Loadable(tone_hit)
       THEN /\ music' = [loaded |-> tone_hit, playing |-> "no"]
            /\ cpc' = "pl_play"
       ELSE /\ music' = music
            /\ cpc' = "pl_exc_acq"
    /\ UNCHANGED <<envVars, alarmFile, RINGING, STOPPED_THIS_MINUTE, LOCK,
                   alarm, now, last_minute_seen, should_ring,
                   blocked_this_minute, already_ringing, tone_hit,
                   hVars, stopDone, fnVars>>

\* play(-1) loops what is loaded, or raises pygame.error
PlPlay ==
    /\ cpc = "pl_play"
    /\ \/ /\ music' = [music EXCEPT !.playing = "loop"]
          /\ cpc' = "pl_set_acq"
       \/ /\ music' = music
          /\ cpc' = "pl_exc_acq"
    /\ UNCHANGED <<envVars, alarmFile, RINGING, STOPPED_THIS_MINUTE, LOCK,
                   alarm, now, last_minute_seen, should_ring,
                   blocked_this_minute, already_ringing, tone_hit,
                   hVars, stopDone, fnVars>>

PlSetAcq ==
    /\ cpc = "pl_set_acq"
    /\ LOCK = "free"
    /\ LOCK' = "checker"
    /\ cpc' = "pl_set_write"
    /\ UNCHANGED <<envVars, alarmFile, music, RINGING, STOPPED_THIS_MINUTE,
                   alarm, now, last_minute_seen, should_ring,
                   blocked_this_minute, already_ringing, tone_hit,
                   hVars, stopDone, fnVars>>

\* RINGING = True, the with block is left, play_loop returns
PlSetWrite ==
    /\ cpc = "pl_set_write"
    /\ RINGING' = TRUE
    /\ LOCK' = "free"
    /\ cpc' = "sleep"
    /\ tone_hit' = None
    /\ UNCHANGED <<envVars, alarmFile, music, STOPPED_THIS_MINUTE,
                   alarm, now, last_minute_seen, should_ring,
                   blocked_this_minute, already_ringing,
                   hVars, stopDone, fnVars>>

\* except Exception: print, and the with block is entered
PlExcAcq ==
    /\ cpc = "pl_exc_acq"
    /\ LOCK = "free"
    /\ LOCK' = "checker"
    /\ cpc' = "pl_exc_write"
    /\ UNCHANGED <<envVars, alarmFile, music, RINGING, STOPPED_THIS_MINUTE,
                   alarm, now, last_minute_seen, should_ring,
                   blocked_this_minute, already_ringing, tone_hit,
                   hVars, stopDone, fnVars>>

\* RINGING = False, the with block is left, play_loop returns
PlExcWrite ==
    /\ cpc = "pl_exc_write"
    /\ RINGING' = FALSE
    /\ LOCK' = "free"
    /\ cpc' = "sleep"
    /\ tone_hit' = None
    /\ UNCHANGED <<envVars, alarmFile, music, STOPPED_THIS_MINUTE,
                   alarm, now, last_minute_seen, should_ring,
                   blocked_this_minute, already_ringing,
                   hVars, stopDone, fnVars>>

\* time.sleep(1), and the next tick begins
CkSleep ==
    /\ cpc = "sleep"
    /\ cpc' = "load"
    /\ UNCHANGED <<envVars, sharedVars, alarm, now, last_minute_seen, should_ring,
                   blocked_this_minute, already_ringing, tone_hit,
                   hVars, stopDone, fnVars>>

\* CkBackoff with the except outside the while loop: alarm_checker returns
CkBackoff_LeavesLoop ==
    /\ cpc = "backoff"
    /\ cpc' = "done"
    /\ UNCHANGED <<envVars, sharedVars, alarm, now, last_minute_seen, should_ring,
                   blocked_this_minute, already_ringing, tone_hit,
                   hVars, stopDone, fnVars>>

\* except Exception: print, time.sleep(2), and the next tick begins
CkBackoff ==
    /\ cpc = "backoff"
    /\ cpc' = "load"
    /\ UNCHANGED <<envVars, sharedVars, alarm, now, last_minute_seen, should_ring,
                   blocked_this_minute, already_ringing, tone_hit,
                   hVars, stopDone, fnVars>>

Checker ==
    \/ CkLoad \/ CkNow \/ CkResetAcq \/ CkResetWrite \/ CkLog
    \/ CkChkAcq \/ CkChkRead \/ CkDecide
    \/ PlCheck \/ PlLoad \/ PlPlay \/ PlSetAcq \/ PlSetWrite
    \/ PlExcAcq \/ PlExcWrite \/ CkSleep \/ CkBackoff

(***************************************************************************)
(* Handler.do_GET: /save                                                   *)
(***************************************************************************)
\* AlarmData with the ringtone as the request gave it
AlarmData_RawRingtone(p, hit) ==
    LET n == normalize_time(p.hour, p.minute, p.ampm)
    IN  Dict(<< <<"hour", n[1]>>, <<"minute", n[2]>>, <<"ampm", n[3]>>,
                <<"time12", n[4]>>, <<"ringtone", p.ringtone>> >>)

\* the record /save stores
AlarmData(p, hit) ==
    LET n == normalize_time(p.hour, p.minute, p.ampm)
    IN  Dict(<< <<"hour", n[1]>>, <<"minute", n[2]>>, <<"ampm", n[3]>>,
                <<"time12", n[4]>>, <<"ringtone", hit>> >>)

\* a /save request arrives and its query string is parsed
SaveReq(p) ==
    /\ hpc = "idle"
    /\ hpc' = "sv_begin"
    /\ params' = p
    /\ UNCHANGED <<envVars, sharedVars, ckVars, tone, stopDone, fnVars>>

\* tone_hit = resolve_tone_path(ringtone); an unresolved ringtone is
\* answered with the error page
SvResolve ==
    /\ hpc = "sv_begin"
    /\ LET hit == resolve_tone_path(params.ringtone, files)
       IN  IF Truthy(hit)
           THEN hpc' = "sv_open" /\ params' = params /\ tone' = hit
           ELSE hpc' = "idle" /\ params' = NoParams /\ tone' = None
    /\ UNCHANGED <<envVars, sharedVars, ckVars, stopDone, fnVars>>

\* save_alarm_obj: open(ALARM_FILE, "w") truncates the file
SvOpen ==
    /\ hpc = "sv_open"
    /\ alarmFile' = FileGarbage
    /\ hpc' = "sv_write"
    /\ UNCHANGED <<envVars, music, RINGING, STOPPED_THIS_MINUTE, LOCK,
                   ckVars, params, tone, stopDone, fnVars>>

\* save_alarm_obj: json.dump, written out as the file is closed
SvWrite ==
    /\ hpc = "sv_write"
    /\ alarmFile' = save_alarm_obj(AlarmData(params, tone))
    /\ hpc' = "idle"
    /\ params' = NoParams
    /\ tone' = None
    /\ UNCHANGED <<envVars, music, RINGING, STOPPED_THIS_MINUTE, LOCK,
                   ckVars, stopDone, fnVars>>

(***************************************************************************)
(* Handler.do_GET: /stop, that is stop_playback()                          *)
(***************************************************************************)
StopReq ==
    /\ hpc = "idle"
    /\ hpc' = "st_acq"
    /\ UNCHANGED <<envVars, sharedVars, ckVars, params, tone, stopDone, fnVars>>

StAcq ==
    /\ hpc = "st_acq"
    /\ LOCK = "free"
    /\ LOCK' = "handler"
    /\ hpc' = "st_body"
    /\ UNCHANGED <<envVars, alarmFile, music, RINGING, STOPPED_THIS_MINUTE,
                   ckVars, params, tone, stopDone, fnVars>>

\* StBody with the minute recorded only when the alarm was ringing
StBody_MarksOnlyWhenRinging ==
    /\ hpc = "st_body"
    /\ music' = IF RINGING /\ AUDIO_OK
                THEN [music EXCEPT !.playing = "no"]
                ELSE music
    /\ RINGING' = FALSE
    /\ STOPPED_THIS_MINUTE' = IF RINGING THEN Display(clock) ELSE STOPPED_THIS_MINUTE
    /\ LOCK' = "free"
    /\ hpc' = "st_print"
    /\ UNCHANGED <<envVars, alarmFile, ckVars, params, tone, stopDone, fnVars>>

\* StBody that leaves the with block without giving LOCK back
StBody_KeepsLock ==
    /\ hpc = "st_body"
    /\ music' = IF RINGING /\ AUDIO_OK
                THEN [music EXCEPT !.playing = "no"]
                ELSE music
    /\ RINGING' = FALSE
    /\ STOPPED_THIS_MINUTE' = Display(clock)
    /\ hpc' = "st_print"
    /\ UNCHANGED <<envVars, alarmFile, LOCK, ckVars, params, tone, stopDone, fnVars>>

\* the body of the with block, and its exit
StBody ==
    /\ hpc = "st_body"
    /\ music' = IF RINGING /\ AUDIO_OK
                THEN [music EXCEPT !.playing = "no"]
                ELSE music
    /\ RINGING' = FALSE
    /\ STOPPED_THIS_MINUTE' = Display(clock)
    /\ LOCK' = "free"
    /\ hpc' = "st_print"
    /\ UNCHANGED <<envVars, alarmFile, ckVars, params, tone, stopDone, fnVars>>

\* print(f"... {STOPPED_THIS_MINUTE}"), and stop_playback returns
StPrint ==
    /\ hpc = "st_print"
    /\ hpc' = "idle"
    /\ stopDone' = TRUE
    /\ UNCHANGED <<envVars, sharedVars, ckVars, params, tone, fnVars>>

(***************************************************************************)
(* Handler.do_GET: /test                                                   *)
(***************************************************************************)
\* a /test request arrives
TestReq ==
    /\ hpc = "idle"
    /\ hpc' = "ts_begin"
    /\ UNCHANGED <<envVars, sharedVars, ckVars, params, tone, stopDone, fnVars>>

\* alarm = load_alarm(); tone = alarm.get("ringtone", ""): a list has no
\* .get and the request dies; no tone, or no audio device, is answered
TsBegin ==
    /\ hpc = "ts_begin"
    /\ LET a == load_alarm(alarmFile)
           t == IF a.type = "dict" THEN Get(a, "ringtone", << >>) ELSE << >>
       IN  IF Truthy(t) /\ AUDIO_OK
           THEN hpc' = "ts_load" /\ tone' = t
           ELSE hpc' = "idle" /\ tone' = None
    /\ UNCHANGED <<envVars, sharedVars, ckVars, params, stopDone, fnVars>>

TsLoad ==
    /\ hpc = "ts_load"
    /\ IF Loadable(tone)
       THEN /\ music' = [loaded |-> tone, playing |-> "no"]
            /\ hpc' = "ts_play"
            /\ tone' = tone
       ELSE /\ music' = music
            /\ hpc' = "idle"
            /\ tone' = None
    /\ UNCHANGED <<envVars, alarmFile, RINGING, STOPPED_THIS_MINUTE, LOCK,
                   ckVars, params, stopDone, fnVars>>

\* play() plays what is loaded once, or raises; then time.sleep(1.8)
TsPlay ==
    /\ hpc = "ts_play"
    /\ \/ /\ music' = [music EXCEPT !.playing = "once"]
          /\ hpc' = "ts_sleep"
          /\ tone' = tone
       \/ /\ music' = music
          /\ hpc' = "idle"
          /\ tone' = None
    /\ UNCHANGED <<envVars, alarmFile, RINGING, STOPPED_THIS_MINUTE, LOCK,
                   ckVars, params, stopDone, fnVars>>

\* TsStop that also marks the alarm as not ringing
TsStop_ClearsRinging ==
    /\ hpc = "ts_sleep"
    /\ music' = [music EXCEPT !.playing = "no"]
    /\ RINGING' = FALSE
    /\ hpc' = "idle"
    /\ tone' = None
    /\ UNCHANGED <<envVars, alarmFile, STOPPED_THIS_MINUTE, LOCK,
                   ckVars, params, stopDone, fnVars>>

\* the sleep is over: pygame.mixer.music.stop()
TsStop ==
    /\ hpc = "ts_sleep"
    /\ music' = [music EXCEPT !.playing = "no"]
    /\ hpc' = "idle"
    /\ tone' = None
    /\ UNCHANGED <<envVars, alarmFile, RINGING, STOPPED_THIS_MINUTE, LOCK,
                   ckVars, params, stopDone, fnVars>>

Handler ==
    \/ \E p \in SaveRequests : SaveReq(p)
    \/ SvResolve \/ SvOpen \/ SvWrite
    \/ StopReq \/ StAcq \/ StBody \/ StPrint
    \/ TestReq \/ TsBegin \/ TsLoad \/ TsPlay \/ TsStop

(***************************************************************************)
(* The environment: the wall clock, and the audio file in the music folder *)
(***************************************************************************)
ClockAdvance ==
    /\ advances < MaxAdvance
    /\ \E d \in ClockSteps : clock' = (clock + d) % MinutesPerDay
    /\ advances' = advances + 1
    /\ stopDone' = FALSE
    /\ UNCHANGED <<files, AUDIO_OK, sharedVars, ckVars, hVars, fnVars>>

FileChange ==
    /\ files' = IF ToneA \in files THEN files \ {ToneA} ELSE files \cup {ToneA}
    /\ UNCHANGED <<clock, advances, AUDIO_OK, sharedVars, ckVars, hVars,
                   stopDone, fnVars>>

Next == Checker \/ Handler \/ ClockAdvance \/ FileChange

Spec == Init /\ [][Next]_vars

(***************************************************************************)
(* The two threads under a fair scheduler.  A thread that is not waiting   *)
(* for LOCK is not held where it is for ever: it takes the step of its     *)
(* code there.  A thread waiting for LOCK gets it if LOCK is free again    *)
(* and again (the other thread leaves its with block and then sleeps or    *)
(* serves a request).  Requests arrive, the clock moves and files change   *)
(* when they will.                                                         *)
(***************************************************************************)
\* where the checker waits for LOCK
CheckerWaits == {"reset_acq", "chk_acq", "pl_set_acq", "pl_exc_acq"}

CheckerPcs ==
    {"load", "now", "reset_write", "log", "chk_read", "decide", "pl_check", "pl_load",
     "pl_play", "pl_set_write", "pl_exc_write", "sleep", "backoff"} \cup CheckerWaits

\* where a request is being served, other than waiting for LOCK
HandlerBusy ==
    {"sv_begin", "sv_open", "sv_write", "st_body", "st_print",
     "ts_begin", "ts_load", "ts_play", "ts_sleep"}

\* the checker thread runs: it leaves the place in its code where it is
CheckerRuns == cpc \in CheckerPcs \ CheckerWaits /\ cpc' \in CheckerPcs \ {cpc}

\* the checker enters a with LOCK block
CheckerAcquires == CkResetAcq \/ CkChkAcq \/ PlSetAcq \/ PlExcAcq

\* the handler thread runs
HandlerRuns == hpc \in HandlerBusy /\ hpc' \in (HandlerBusy \cup {"idle"}) \ {hpc}

\* how many times the displayed minute changes in a run under the fair
\* scheduler
MaxMinutes == 1

\* the wall clock comes to the next minute
MinutePasses ==
    /\ advances < MaxMinutes
    /\ clock' = (clock + 1) % MinutesPerDay
    /\ advances' = advances + 1
    /\ stopDone' = FALSE
    /\ UNCHANGED <<files, AUDIO_OK, sharedVars, ckVars, hVars, fnVars>>

FairNext == Checker \/ Handler \/ MinutePasses \/ FileChange

SpecFair ==
    /\ Init
    /\ [][FairNext]_vars
    /\ WF_cpc(CheckerRuns)
    /\ SF_vars(CheckerAcquires)
    /\ WF_hpc(HandlerRuns)
    /\ SF_vars(StAcq)

(***************************************************************************)
(* normalize_time called on its own, on spellings of integers below, in    *)
(* and above the valid ranges, on texts that are no integers, and on       *)
(* meridiem tokens.  Each input carries what it spells.                    *)
(***************************************************************************)
\* how far below and above the valid ranges the integers go
NormOver == 3

PyStr(n) == IF n < 0 THEN <<"-">> \o DecStr(0 - n) ELSE DecStr(n)

IntSpellings(n) ==
    {PyStr(n), <<" ">> \o PyStr(n) \o <<" ">>}
        \cup (IF n >= 0 THEN {<<"+">> \o PyStr(n), <<"0">> \o PyStr(n)} ELSE {})

NonIntegers ==
    {<< >>, <<"x">>, <<"7", "x">>, <<"1", ".", "5">>, <<"-">>, <<"_", "7">>, <<"7", "_">>}

HourInputs ==
    UNION {{[text |-> t, int |-> TRUE, val |-> n] : t \in IntSpellings(n)} :
              n \in (0 - NormOver)..(12 + NormOver)}
      \cup {[text |-> t, int |-> FALSE, val |-> 0] : t \in NonIntegers}

MinuteInputs ==
    {[text |-> PyStr(n), int |-> TRUE, val |-> n] : n \in (0 - NormOver)..(59 + NormOver)}
      \cup {[text |-> t, int |-> FALSE, val |-> 0] : t \in NonIntegers}

AmpmInputs ==
    {[text |-> <<"P", "M">>, pm |-> TRUE],
     [text |-> <<"p", "m">>, pm |-> TRUE],
     [text |-> <<"P", "m">>, pm |-> TRUE],
     [text |-> <<" ", "p", "m", " ">>, pm |-> TRUE],
     [text |-> <<"A", "M">>, pm |-> FALSE],
     [text |-> <<"a", "m">>, pm |-> FALSE],
     [text |-> <<"x", "m">>, pm |-> FALSE],
     [text |-> <<"P", " ", "M">>, pm |-> FALSE],
     [text |-> <<"P", "M", "x">>, pm |-> FALSE],
     [text |-> << >>, pm |-> FALSE]}

NormInputs == [hour : HourInputs, minute : MinuteInputs, ampm : AmpmInputs]

\* the program at rest, while a function is called on its own
AtRest ==
    /\ InitProgram
    /\ AUDIO_OK = TRUE

NormInit ==
    /\ AtRest
    /\ alarmFile = FileMissing
    /\ fnPc = "norm"
    /\ fnIn \in NormInputs
    /\ fnOut = << >>

NormCall ==
    /\ fnPc = "norm"
    /\ fnOut' = normalize_time(fnIn.hour.text, fnIn.minute.text, fnIn.ampm.text)
    /\ fnPc' = "norm_done"
    /\ UNCHANGED <<envVars, sharedVars, ckVars, hVars, stopDone, fnIn>>

SpecNorm == NormInit /\ [][NormCall]_vars

(***************************************************************************)
(* save_alarm_obj and load_alarm called on their own, on the records /save *)
(* can produce: normalized times, and absolute ringtone paths whose file   *)
(* name holds characters that JSON escapes.                                *)
(***************************************************************************)
\* the longest file name of a ringtone
MaxNameLen == 2

NameChars == {"a", "u", BSLASH, DQUOTE, EACUTE}

RECURSIVE Names(_)
Names(n) ==
    IF n = 0 THEN {<< >>}
    ELSE LET shorter == Names(n - 1)
         IN  shorter \cup {Append(s, c) : s \in shorter, c \in NameChars}

JsonTimes ==
    [hour : {<<"7">>, <<"1", "2">>}, minute : {<<"4">>}, ampm : {<<"A", "M">>, <<"p", "m">>},
     ringtone : {<<"a">>}]

JsonRecords ==
    {AlarmData(p, PathJoin(MUSIC_DIR, name)) :
        p \in JsonTimes, name \in Names(MaxNameLen) \ {<< >>}}

JsonInit ==
    /\ AtRest
    /\ alarmFile \in {FileMissing, FileGarbage}
    /\ fnPc = "json"
    /\ fnIn = EmptyDict
    /\ fnOut = EmptyDict

\* save_alarm_obj(rec)
JsonSave(rec) ==
    /\ fnPc \in {"json", "json_saved", "json_loaded"}
    /\ alarmFile' = save_alarm_obj(rec)
    /\ fnIn' = rec
    /\ fnOut' = EmptyDict
    /\ fnPc' = "json_saved"
    /\ UNCHANGED <<envVars, music, RINGING, STOPPED_THIS_MINUTE, LOCK,
                   ckVars, hVars, stopDone>>

\* load_alarm()
JsonLoad ==
    /\ fnPc = "json_saved"
    /\ fnOut' = load_alarm(alarmFile)
    /\ fnPc' = "json_loaded"
    /\ UNCHANGED <<envVars, sharedVars, ckVars, hVars, stopDone, fnIn>>

JsonNext == (\E rec \in JsonRecords : JsonSave(rec)) \/ JsonLoad

SpecJson == JsonInit /\ [][JsonNext]_vars

(***************************************************************************)
(* resolve_tone_path called on its own, on every path of a few components  *)
(* (names, ".", "..", empty components; relative and absolute) and every   *)
(* set of existing files among three of the same name: in the music        *)
(* folder, next to the script, and in the root.                            *)
(***************************************************************************)
\* the most components a ringtone value has
MaxComps == 4

PathComps == {<< >>, <<".">>, DotDot, <<"a">>, <<"s">>, <<"m">>}

RECURSIVE CompSeqs(_)
CompSeqs(n) ==
    IF n = 1 THEN {<<c>> : c \in PathComps}
    ELSE LET shorter == CompSeqs(n - 1)
         IN  shorter \cup {Append(cs, c) : cs \in {x \in shorter : Len(x) = n - 1},
                                           c \in PathComps}

TonePaths ==
    {<< >>} \cup {JoinComps(cs) : cs \in CompSeqs(MaxComps)}
            \cup {<<"/">> \o JoinComps(cs) : cs \in CompSeqs(MaxComps)}

ResFiles == {PathJoin(MUSIC_DIR, <<"a">>), PathJoin(SCRIPT_DIR, <<"a">>), <<"/", "a">>}

ResInputs == [tone_path : TonePaths, files : SUBSET ResFiles]

ResInit ==
    /\ AtRest
    /\ alarmFile = FileMissing
    /\ fnPc = "res"
    /\ fnIn \in ResInputs
    /\ fnOut = << >>

ResCall ==
    /\ fnPc = "res"
    /\ fnOut' = resolve_tone_path(fnIn.tone_path, fnIn.files)
    /\ fnPc' = "res_done"
    /\ UNCHANGED <<envVars, sharedVars, ckVars, hVars, stopDone, fnIn>>

SpecResolve == ResInit /\ [][ResCall]_vars

(***************************************************************************)
(* The checker on a settings file written by hand: the file is missing, no *)
(* JSON, a JSON array, or a JSON object in which each of hour, minute,     *)
(* ampm and ringtone is absent, empty or set, or whose ringtone is         *)
(* malformed.  The alarm may be ringing and a minute may be marked as      *)
(* stopped when the file is put there; /stop requests arrive as they will. *)
(***************************************************************************)
TickKeys == <<"hour", "minute", "ampm", "time12", "ringtone">>

TickValue(k) ==
    CASE k = "hour" -> <<"0", "7">>
      [] k = "minute" -> <<"0", "4">>
      [] k = "ampm" -> <<"A", "M">>
      [] k = "time12" -> Display(StartClock)
      [] OTHER -> ToneA

TickChoices == [{"hour", "minute", "ampm", "ringtone"} -> {"absent", "empty", "set"}]

TickMembers(c) ==
    LET kept == SelectSeq(TickKeys, LAMBDA k : k = "time12" \/ c[k] # "absent")
    IN  [i \in 1..Len(kept) |->
            <<kept[i], IF kept[i] # "time12" /\ c[kept[i]] = "empty"
                       THEN << >>
                       ELSE Escape(TickValue(kept[i]))>>]

TickFiles ==
    {FileMissing, FileGarbage, FileArray,
     FileObject(<< <<"hour", <<"0", "7">> >>, <<"minute", <<"0", "4">> >>,
                   <<"ampm", <<"A", "M">> >>, <<"ringtone", <<BSLASH, "x">> >> >>)}
        \cup {FileObject(TickMembers(c)) : c \in TickChoices}

TickInit ==
    /\ clock = StartClock
    /\ advances = 0
    /\ files = StaticFiles \cup {ToneA}
    /\ AUDIO_OK = TRUE
    /\ alarmFile \in TickFiles
    /\ RINGING \in BOOLEAN
    /\ music = IF RINGING THEN [loaded |-> ToneA, playing |-> "loop"] ELSE Silent
    /\ STOPPED_THIS_MINUTE \in {None, Display(StartClock), Display(StartClock - 1)}
    /\ LOCK = "free"
    /\ cpc = "load"
    /\ alarm = EmptyDict
    /\ now = <<None, None, None>>
    /\ last_minute_seen \in {None, Format02d(Hour12(StartClock)) \o <<":">>
                                       \o Format02d(StartClock % 60)}
    /\ should_ring = FALSE
    /\ blocked_this_minute = FALSE
    /\ already_ringing = FALSE
    /\ tone_hit = None
    /\ hpc = "idle"
    /\ params = NoParams
    /\ tone = None
    /\ stopDone = FALSE
    /\ fnPc = "off"
    /\ fnIn = << >>
    /\ fnOut = << >>

TickNext == Checker \/ StopReq \/ StAcq \/ StBody \/ StPrint

SpecTick == TickInit /\ [][TickNext]_vars

(***************************************************************************)
(* Steps of the program that the properties below speak of.                *)
(***************************************************************************)
\* the checker's play(-1) call returns: looped playback has begun
StartsLoop == cpc = "pl_play" /\ cpc' = "pl_set_acq"

\* stop_playback() returns
StopReturns == hpc = "st_print" /\ hpc' = "idle"

\* the steps of a /test request
TestPcs == {"ts_begin", "ts_load", "ts_play", "ts_sleep"}

\* where the checker is inside play_loop
PlayLoopPcs == {"pl_check", "pl_load", "pl_play", "pl_set_acq", "pl_set_write",
                "pl_exc_acq", "pl_exc_write"}

\* the steps of alarm_checker and play_loop that read or write RINGING or
\* STOPPED_THIS_MINUTE: lines 157, 162, 173-174, 97 and 102
CheckerAccess == {"reset_write", "log", "chk_read", "pl_set_write", "pl_exc_write"}

\* the steps of stop_playback that do: lines 108-114, and the print of
\* STOPPED_THIS_MINUTE on line 115
HandlerAccess == {"st_body", "st_print"}

\* where the checker is between reading the clock and the trigger decision
MidTick == {"reset_acq", "reset_write", "log", "chk_acq", "chk_read", "decide"}

(***************************************************************************)
(* C1.  Once stop_playback() has returned while the wall clock displays T, *)
(* the checker starts no looped playback while the clock still displays T. *)
(* Stated as the claim states it; the code does not satisfy it.            *)
(***************************************************************************)
C1_NoRetriggerInStoppedMinute == [][stopDone => ~StartsLoop]_vars

(***************************************************************************)
(* C2 (as amended).  A tick that reads a matching alarm, RINGING False and *)
(* no suppression of this minute, and whose ringtone resolves, calls       *)
(* play_loop; with the audio device initialized, and unless load or play   *)
(* raises, play_loop starts looped playback of that file and sets RINGING; *)
(* while RINGING is True the checker is never in play_loop nor about to    *)
(* call it, so playback is started once per ring.                          *)
(***************************************************************************)
C2_Trigger ==
    cpc = "decide" /\ cpc' # cpc =>
        LET hit == resolve_tone_path(Get(alarm, "ringtone", None), files)
        IN  IF should_ring /\ ~already_ringing /\ ~blocked_this_minute /\ hit # None
            THEN cpc' = "pl_check" /\ tone_hit' = hit
            ELSE cpc' = "sleep"

C2_Completes ==
    /\ cpc = "pl_check" /\ cpc' # cpc /\ AUDIO_OK => cpc' = "pl_load"
    /\ cpc = "pl_play" /\ cpc' = "pl_set_acq" =>
           music' = [loaded |-> tone_hit, playing |-> "loop"]
    /\ cpc = "pl_set_acq" /\ cpc' # cpc => cpc' = "pl_set_write"
    /\ cpc = "pl_set_write" /\ cpc' # cpc => RINGING' /\ cpc' = "sleep"

C2_OncePerRing ==
    RINGING => /\ cpc \notin PlayLoopPcs
               /\ cpc = "decide" => already_ringing

C2_StartsUnlessRaises ==
    /\ [](C2_OncePerRing)
    /\ [][/\ C2_Trigger
          /\ C2_Completes
          /\ cpc = "pl_load" /\ cpc' # cpc /\ Loadable(tone_hit) => cpc' = "pl_play"
          /\ cpc = "pl_play" /\ cpc' # cpc => cpc' \in {"pl_set_acq", "pl_exc_acq"}]_vars

\* a later matching tick finds the alarm already ringing
C2_Witness ==
    /\ cpc = "decide"
    /\ should_ring
    /\ already_ringing
    /\ RINGING
    /\ music.playing = "loop"

(***************************************************************************)
(* C2 (as claimed).  The same, for every ringtone that resolves to an      *)
(* existing file: the tick starts looped playback and sets RINGING.        *)
(***************************************************************************)
C2_StartsForEveryExistingFile ==
    /\ [](C2_OncePerRing)
    /\ [][/\ C2_Trigger
          /\ C2_Completes
          /\ cpc = "pl_load" /\ cpc' # cpc /\ tone_hit \in files => cpc' = "pl_play"
          /\ cpc = "pl_play" /\ cpc' # cpc => cpc' = "pl_set_acq"]_vars

(***************************************************************************)
(* C3.  When stop_playback() returns, the music channel is not playing the *)
(* looped alarm audio.  Stated as the claim states it; the code does not   *)
(* satisfy it.                                                             *)
(***************************************************************************)
C3_StopLeavesSilence == [][StopReturns => music'.playing # "loop"]_vars

(***************************************************************************)
(* C4.  The step in which stop_playback() leaves its critical section      *)
(* sets RINGING to False and STOPPED_THIS_MINUTE to the display string of  *)
(* the wall clock, whatever the state before; when both already had these  *)
(* values (a second /stop in the same minute) they are unchanged.          *)
(***************************************************************************)
C4_StopAlwaysMarksMinute ==
    [][hpc = "st_body" /\ hpc' # hpc =>
          /\ hpc' = "st_print"
          /\ RINGING' = FALSE
          /\ STOPPED_THIS_MINUTE' = Display(clock')
          /\ (~RINGING /\ STOPPED_THIS_MINUTE = Display(clock) =>
                 UNCHANGED <<RINGING, STOPPED_THIS_MINUTE>>)]_vars

\* a second /stop of the same minute has left its critical section, with
\* no audio device
C4_Witness ==
    /\ stopDone
    /\ hpc = "st_print"
    /\ ~AUDIO_OK
    /\ ~RINGING
    /\ STOPPED_THIS_MINUTE = Display(clock)

(***************************************************************************)
(* C5.  In every reachable state, RINGING is True only while the music     *)
(* channel plays the looped audio play_loop started.  Stated as the claim  *)
(* states it; the code does not satisfy it.                                *)
(***************************************************************************)
C5_RingingImpliesLooping == RINGING => music.playing = "loop"

(***************************************************************************)
(* C6.  A play_loop call that fails returns to the loop's sleep with       *)
(* RINGING False, and no step of play_loop leads to the loop's except;     *)
(* when AUDIO_OK is False, RINGING is False in every reachable state and   *)
(* neither the checker nor /test reaches a call of the music channel.      *)
(***************************************************************************)
C6_NoAudioNeverRings ==
    ~AUDIO_OK =>
        /\ ~RINGING
        /\ music = Silent
        /\ cpc \notin (PlayLoopPcs \ {"pl_check"})
        /\ hpc \notin {"ts_load", "ts_play", "ts_sleep"}

C6_FailedStart ==
    /\ [](C6_NoAudioNeverRings)
    /\ [][/\ cpc \in {"pl_check", "pl_exc_write"} /\ cpc' = "sleep" => ~RINGING'
          /\ cpc \in PlayLoopPcs /\ cpc' # cpc => cpc' \in PlayLoopPcs \cup {"sleep"}]_vars

\* with no audio device, the checker is in play_loop and a /test has arrived
C6_Witness ==
    /\ ~AUDIO_OK
    /\ cpc = "pl_check"
    /\ hpc = "ts_begin"

(***************************************************************************)
(* C7.  A /save whose ringtone does not resolve ends with the settings     *)
(* file as it was; one whose ringtone resolves ends with the file holding  *)
(* exactly the normalized hour, minute, meridiem, the display string and   *)
(* the resolved path; nothing else writes the file.                        *)
(***************************************************************************)
C7_Expected(p, hit) ==
    LET n == normalize_time(p.hour, p.minute, p.ampm)
    IN  Dict(<< <<"hour", n[1]>>, <<"minute", n[2]>>, <<"ampm", n[3]>>,
                <<"time12", n[1] \o <<":">> \o n[2] \o <<" ">> \o n[3]>>,
                <<"ringtone", hit>> >>)

C7_SaveReplacesOrLeaves ==
    [][/\ hpc = "sv_begin" /\ hpc' # hpc =>
             LET hit == resolve_tone_path(params.ringtone, files)
             IN  IF hit = None
                 THEN hpc' = "idle" /\ alarmFile' = alarmFile
                 ELSE hpc' = "sv_open" /\ tone' = hit /\ params' = params
       /\ hpc = "sv_open" /\ hpc' # hpc => hpc' = "sv_write" /\ UNCHANGED <<params, tone>>
       /\ hpc = "sv_write" /\ hpc' # hpc =>
             /\ hpc' = "idle"
             /\ load_alarm(alarmFile') = C7_Expected(params, tone)
       /\ alarmFile' # alarmFile => hpc \in {"sv_open", "sv_write"} /\ hpc' # hpc]_vars

\* a record is stored and a /save arrives whose ringtone does not resolve
C7_Witness ==
    /\ alarmFile.kind = "object"
    /\ hpc = "sv_begin"
    /\ resolve_tone_path(params.ringtone, files) = None

(***************************************************************************)
(* C8.  No step of a /test request changes RINGING, STOPPED_THIS_MINUTE or *)
(* the settings file, whatever its outcome.                                *)
(***************************************************************************)
TestStep == hpc \in TestPcs /\ hpc' # hpc

C8_TestLeavesStateAlone ==
    [][TestStep => UNCHANGED <<RINGING, STOPPED_THIS_MINUTE, alarmFile>>]_vars

\* the preview has been played while the alarm is marked as ringing
C8_Witness ==
    /\ hpc = "ts_sleep"
    /\ RINGING
    /\ STOPPED_THIS_MINUTE # None

(***************************************************************************)
(* C9.  load_alarm() after save_alarm_obj(record) returns the record, for  *)
(* every record /save can produce and after any sequence of saves.         *)
(***************************************************************************)
C9_RoundTrip == fnPc = "json_loaded" => fnOut = fnIn

\* a record whose path holds a backslash and a quote was saved over
\* another and loaded
C9_Witness ==
    /\ fnPc = "json_loaded"
    /\ \E i \in 1..Len(Get(fnOut, "ringtone", None)) :
           Get(fnOut, "ringtone", None)[i] = BSLASH
    /\ \E i \in 1..Len(Get(fnOut, "ringtone", None)) :
           Get(fnOut, "ringtone", None)[i] = DQUOTE

(***************************************************************************)
(* C10.  normalize_time returns the two-digit hour min(12, max(1, h)), the *)
(* two-digit minute min(59, max(0, m)), PM exactly when the trimmed,       *)
(* upper-cased token is PM and AM otherwise, and "HH:MM AM/PM" built from  *)
(* these; an hour that is no integer gives 07, such a minute 00.           *)
(***************************************************************************)
TwoDigits(n) == <<Digit[(n \div 10) + 1], Digit[(n % 10) + 1]>>

C10_Normalize ==
    fnPc = "norm_done" =>
        LET h == IF fnIn.hour.int THEN Min(12, Max(1, fnIn.hour.val)) ELSE 7
            m == IF fnIn.minute.int THEN Min(59, Max(0, fnIn.minute.val)) ELSE 0
            ap == IF fnIn.ampm.pm THEN <<"P", "M">> ELSE <<"A", "M">>
        IN  fnOut = <<TwoDigits(h), TwoDigits(m), ap,
                      TwoDigits(h) \o <<":">> \o TwoDigits(m) \o <<" ">> \o ap>>

\* an hour above and a minute below the valid range, a lower-case pm
C10_Witness ==
    /\ fnPc = "norm_done"
    /\ fnIn.hour.int /\ fnIn.hour.val > 12
    /\ fnIn.minute.int /\ fnIn.minute.val < 0
    /\ fnIn.ampm.text = <<" ", "p", "m", " ">>
    /\ fnOut[4] = <<"1", "2", ":", "0", "0", " ", "P", "M">>

(***************************************************************************)
(* C11 (as amended).  resolve_tone_path returns None for an empty value    *)
(* and when no candidate exists; for a bare file name that exists in the   *)
(* music folder, the music folder joined with the name; and otherwise the  *)
(* normalized absolute form (os.path.abspath) of the first existing        *)
(* candidate in the order: the value itself when absolute or prefixed by   *)
(* the music folder, the music-folder join, the script-folder join.        *)
(***************************************************************************)
C11_Order(t) ==
    (IF IsAbs(t) \/ StartsWith(t, MUSIC_DIR) THEN <<t>> ELSE << >>)
        \o <<PathJoin(MUSIC_DIR, t), PathJoin(SCRIPT_DIR, t)>>

C11_Existing(t, F) == {i \in 1..Len(C11_Order(t)) : Exists(C11_Order(t)[i], F)}

C11_First(t, F) ==
    C11_Order(t)[CHOOSE i \in C11_Existing(t, F) : \A j \in C11_Existing(t, F) : i <= j]

C11_Bare(t) == t # << >> /\ \A i \in 1..Len(t) : t[i] # "/"

C11_ResolvesNormalized ==
    fnPc = "res_done" =>
        LET t == fnIn.tone_path
            F == fnIn.files
        IN  /\ t = << >> => fnOut = None
            /\ C11_Existing(t, F) = {} => fnOut = None
            /\ C11_Bare(t) /\ MUSIC_DIR \o <<"/">> \o t \in F =>
                   fnOut = MUSIC_DIR \o <<"/">> \o t
            /\ t # << >> /\ C11_Existing(t, F) # {} =>
                   fnOut = NormPath(C11_First(t, F))

\* a relative value that steps out of the music folder: the music-folder
\* join is the first candidate and exists, and its normalized form is
\* returned
C11_Witness ==
    /\ fnPc = "res_done"
    /\ fnIn.tone_path = <<".", ".", "/", "a">>
    /\ fnIn.files = {PathJoin(SCRIPT_DIR, <<"a">>)}
    /\ fnOut = PathJoin(SCRIPT_DIR, <<"a">>)

(***************************************************************************)
(* C11 (as claimed).  The same, with the first existing candidate itself   *)
(* returned.                                                               *)
(***************************************************************************)
C11_ReturnsCandidate ==
    fnPc = "res_done" =>
        LET t == fnIn.tone_path
            F == fnIn.files
        IN  /\ t = << >> => fnOut = None
            /\ C11_Existing(t, F) = {} => fnOut = None
            /\ C11_Bare(t) /\ MUSIC_DIR \o <<"/">> \o t \in F =>
                   fnOut = MUSIC_DIR \o <<"/">> \o t
            /\ t # << >> /\ C11_Existing(t, F) # {} =>
                   fnOut = C11_First(t, F)

(***************************************************************************)
(* C12.  Every step of alarm_checker, play_loop and stop_playback that     *)
(* reads or writes RINGING or STOPPED_THIS_MINUTE is taken by a thread     *)
(* that holds LOCK.  Stated as the claim states it; the code does not      *)
(* satisfy it.                                                             *)
(***************************************************************************)
C12_AccessUnderLock ==
    [][/\ cpc \in CheckerAccess /\ cpc' # cpc => LOCK = "checker"
       /\ hpc \in HandlerAccess /\ hpc' # hpc => LOCK = "handler"]_vars

(***************************************************************************)
(* C13.  The checker calls play_loop only from the trigger decision of a   *)
(* tick in which the stored hour equals the hour the tick read from the    *)
(* clock, the stored minute the minute, and the stored meridiem the        *)
(* meridiem ignoring case; the tick reads the clock once, and what it read *)
(* stays until the decision; looped playback starts nowhere but in         *)
(* play_loop.  So a tick that reads a clock that differs from the stored   *)
(* time in any of the three starts nothing.                                *)
(***************************************************************************)
C13_Matches ==
    /\ Get(alarm, "hour", None) = now_h
    /\ Get(alarm, "minute", None) = now_m
    /\ Upper(Get(alarm, "ampm", None)) = Upper(now_ap)

C14_FlagNeverOutlivesMinute ==
    [][/\ cpc = "load" /\ cpc' \in {"sleep", "backoff"} =>
             STOPPED_THIS_MINUTE' \in {None, Display(clock')}
       /\ cpc = "decide" /\ cpc' # cpc =>
             STOPPED_THIS_MINUTE' \in {None, Display(clock'), now_comp}]_vars

(***************************************************************************)
(* C15.  No step of the checker sets STOPPED_THIS_MINUTE to None while it  *)
(* holds the display string of the wall clock.  Stated as the claim states *)
(* it; the code does not satisfy it.                                       *)
(***************************************************************************)
C15_ResetSparesCurrentMinute ==
    [][cpc' # cpc /\ STOPPED_THIS_MINUTE = Display(clock) =>
          STOPPED_THIS_MINUTE' # None]_vars

(***************************************************************************)
(* C16.  Under fair scheduling the checker begins a tick and ends one      *)
(* infinitely often; from the loop's except (a settings file that is no    *)
(* record) and from play_loop's except (playback failed) it comes to the   *)
(* next tick; and the checker is never at a place it cannot leave: it is   *)
(* in its loop, and where it waits for LOCK it can take it unless the      *)
(* handler holds it.                                                       *)
(***************************************************************************)
C16_TicksForever ==
    /\ []<>(cpc = "load")
    /\ []<>(cpc \in {"sleep", "backoff"})
    /\ (cpc \in {"backoff", "pl_exc_acq", "pl_exc_write"}) ~> (cpc = "load")
    /\ [](/\ cpc \in CheckerPcs
          /\ cpc \in CheckerWaits => ENABLED CheckerAcquires \/ LOCK = "handler")

\* playback has failed and the checker waits for LOCK, which /stop holds
C16_Witness ==
    /\ cpc = "pl_exc_acq"
    /\ LOCK = "handler"

(***************************************************************************)
(* C17.  A trigger decision that finds the alarm matching, not ringing and *)
(* not suppressed, and whose ringtone does not resolve, ends the tick and  *)
(* leaves RINGING, STOPPED_THIS_MINUTE, the music channel and              *)
(* last_minute_seen as they were.  And the next ticks try again: under     *)
(* fair scheduling, if from some time on the stored alarm matches the      *)
(* clock, its ringtone resolves and the minute is not suppressed, then     *)
(* RINGING becomes True or the checker calls play_loop again and again.    *)
(***************************************************************************)
C17_FailedResolve ==
    /\ cpc = "decide"
    /\ should_ring
    /\ ~already_ringing
    /\ ~blocked_this_minute
    /\ resolve_tone_path(Get(alarm, "ringtone", None), files) = None

\* the stored alarm is due and can be played
C17_Due ==
    LET a == load_alarm(alarmFile)
    IN  /\ Configured(a)
        /\ ShouldRing(a, current_h_m_ampm(clock))
        /\ resolve_tone_path(Get(a, "ringtone", None), files) # None
        /\ STOPPED_THIS_MINUTE # Display(clock)

C18_Lacks(file, k) ==
    \A i \in 1..Len(file.members) :
        file.members[i][1] = k => file.members[i][2] = << >>

C18_NoAlarm(file) ==
    \/ file.kind # "object"
    \/ \E i \in 1..Len(file.members) : ~Unescape(file.members[i][2]).ok
    \/ \E k \in {"hour", "minute", "ampm", "ringtone"} : C18_Lacks(file, k)

C18_UnconfiguredTickSkipped ==
    [][/\ cpc = "load" /\ cpc' # cpc /\ C18_NoAlarm(alarmFile) =>
             /\ cpc' \in {"sleep", "backoff"}
             /\ UNCHANGED <<RINGING, STOPPED_THIS_MINUTE, music, last_minute_seen>>
       /\ cpc \in {"sleep", "backoff"} /\ cpc' # cpc =>
             /\ cpc' = "load"
             /\ UNCHANGED <<RINGING, STOPPED_THIS_MINUTE, music, last_minute_seen>>]_vars

\* a tick is over that found every field but an empty ringtone, while the
\* alarm rings and an earlier minute is marked as stopped
C18_Witness ==
    /\ cpc = "sleep"
    /\ alarmFile.kind = "object"
    /\ C18_Lacks(alarmFile, "ringtone")
    /\ ~C18_Lacks(alarmFile, "hour")
    /\ ~C18_Lacks(alarmFile, "minute")
    /\ ~C18_Lacks(alarmFile, "ampm")
    /\ Len(alarmFile.members) = 5
    /\ RINGING
    /\ STOPPED_THIS_MINUTE = Display(StartClock - 1)

(***************************************************************************)
(* C19.  While RINGING is True no step of the checker changes RINGING or   *)
(* the music channel, whatever the clock shows and whatever /save and      *)
(* /test do meanwhile; and RINGING goes from True to False in no step but  *)
(* the critical section of stop_playback().                                *)
(***************************************************************************)
C19_RingingUntilStop ==
    [][/\ RINGING /\ cpc' # cpc => RINGING' /\ music' = music
       /\ RINGING /\ ~RINGING' => hpc = "st_body" /\ hpc' = "st_print"]_vars

\* the alarm rings, the clock has left its minute, and a tick that no
\* longer matches comes to its decision
C19_Witness ==
    /\ advances > 0
    /\ cpc = "decide"
    /\ ~should_ring
    /\ already_ringing
    /\ RINGING
    /\ music.playing = "loop"

(***************************************************************************)
(* C20.  A thread that holds LOCK is inside one of the with blocks, where  *)
(* it neither sleeps nor waits for LOCK, and its next step gives LOCK      *)
(* back.  So, under fair scheduling, a /stop request that waits for LOCK   *)
(* completes, and a checker tick that waits for LOCK comes to its sleep.   *)
(***************************************************************************)
C20_HeldBriefly ==
    /\ LOCK \in {"free", "checker", "handler"}
    /\ LOCK = "checker" => cpc \in {"reset_write", "chk_read", "pl_set_write", "pl_exc_write"}
    /\ LOCK = "handler" => hpc = "st_body"

C20_NoDeadlock ==
    /\ []C20_HeldBriefly
    /\ [][/\ LOCK = "checker" /\ cpc' # cpc => LOCK' = "free"
          /\ LOCK = "handler" /\ hpc' # hpc => LOCK' = "free"
          /\ LOCK # "free" /\ LOCK' # LOCK => LOCK' = "free"]_vars
    /\ (hpc = "st_acq") ~> (hpc = "idle")
    /\ (cpc \in CheckerWaits) ~> (cpc = "sleep")

\* a /stop request waits for LOCK while the checker holds it
C20_Witness ==
    /\ hpc = "st_acq"
    /\ LOCK = "checker"
    /\ cpc = "chk_read"

=============================================================================
